---------------------------- MODULE Spec2Model ----------------------------
(***************************************************************************)
(* A model of the two Boost.JSON migration scripts.                        *)
(*                                                                         *)
(*   fix_boost_json.py  (Script A)  globs C++ files, applies seven regex   *)
(*                      substitutions (five rules) to each file's text and *)
(*                      rewrites the file when the text changed.           *)
(*   fix_config.py      (Script B)  applies one regex substitution to      *)
(*                      src/config.cpp and always writes it back.          *)
(*                                                                         *)
(* Texts are strings.  The regular expressions of the scripts are kept as  *)
(* data (a sequence of atoms each) and run by a backtracking matcher that  *)
(* follows Python's re semantics for the constructs the scripts use:       *)
(* literals, \b, greedy \w+ \s+ \s* \d+ [^"]+, capture groups around a     *)
(* repetition, and backreferences.                                         *)
(***************************************************************************)
EXTENDS Integers, Sequences, FiniteSets, TLC

(***************************************************************************)
(* Characters and character classes.                                       *)
(***************************************************************************)

\* The i-th character of text t, as a one-character string.
Ch(t, i) == SubSeq(t, i, i)

Digits == {"0", "1", "2", "3", "4", "5", "6", "7", "8", "9"}

Letters ==
    {"a", "b", "c", "d", "e", "f", "g", "h", "i", "j", "k", "l", "m",
     "n", "o", "p", "q", "r", "s", "t", "u", "v", "w", "x", "y", "z",
     "A", "B", "C", "D", "E", "F", "G", "H", "I", "J", "K", "L", "M",
     "N", "O", "P", "Q", "R", "S", "T", "U", "V", "W", "X", "Y", "Z"}

\* \w : letters, digits and the underscore (of ASCII: the texts of the model
\* hold no other alphanumeric character).
WordChars == Letters \cup Digits \cup {"_"}

\* \s : the whitespace characters the texts of the model can hold.
SpaceChars == {" ", "\t", "\n", "\r", "\f"}

\* Membership of the one-character string c in a class:
\*   "w" is \w, "s" is \s, "d" is \d, "nq" is [^"].
InClass(cls, c) ==
    CASE cls = "w"  -> c \in WordChars
      [] cls = "s"  -> c \in SpaceChars
      [] cls = "d"  -> c \in Digits
      [] cls = "nq" -> c # "\""

\* Is there a word character at index i of t (FALSE outside the text)?
IsWordAt(t, i) == i >= 1 /\ i <= Len(t) /\ Ch(t, i) \in WordChars

\* \b before index pos: exactly one side is a word character.
AtBoundary(t, pos) == IsWordAt(t, pos - 1) # IsWordAt(t, pos)

\* The length of the longest run of class characters starting at pos.
RECURSIVE RunLen(_, _, _)
RunLen(cls, t, pos) ==
    IF pos <= Len(t) /\ InClass(cls, Ch(t, pos))
    THEN 1 + RunLen(cls, t, pos + 1)
    ELSE 0

\* The first index from pos on at which t holds the character c, 0 when there
\* is none.
RECURSIVE IndexFrom(_, _, _)
IndexFrom(t, c, pos) ==
    IF pos > Len(t)
    THEN 0
    ELSE IF Ch(t, pos) = c THEN pos ELSE IndexFrom(t, c, pos + 1)

(***************************************************************************)
(* Regular expressions as data.                                            *)
(***************************************************************************)

\* A literal string.
Lit(s) == [kind |-> "lit", s |-> s]
\* \b
WB == [kind |-> "wb"]
\* A greedy repetition of a class, at least min times; grp is the number of
\* the capture group around it, 0 when it is not captured.
Rep(cls, min, grp) == [kind |-> "rep", cls |-> cls, min |-> min, grp |-> grp]
\* A backreference \grp (in a pattern) or a group reference (in a template).
Ref(grp) == [kind |-> "ref", grp |-> grp]

NoGroups == <<"", "">>
NoMatch == [ok |-> FALSE, end |-> 0, g |-> NoGroups]

\* Does s occur in t at index pos?
LitAt(s, t, pos) ==
    /\ pos + Len(s) - 1 <= Len(t)
    /\ SubSeq(t, pos, pos + Len(s) - 1) = s

\* re's matcher: atoms k.. of pat against t from index pos, with the groups
\* captured so far.  A repetition is greedy: it takes the longest run first
\* (c characters) and gives characters back one at a time until the rest of
\* the pattern matches or fewer than its minimum are left.
RECURSIVE Match(_, _, _, _, _)
RECURSIVE TryRep(_, _, _, _, _, _)
Match(pat, k, t, pos, g) ==
    IF k > Len(pat)
    THEN [ok |-> TRUE, end |-> pos, g |-> g]
    ELSE LET a == pat[k] IN
         CASE a.kind = "lit" ->
                IF LitAt(a.s, t, pos)
                THEN Match(pat, k + 1, t, pos + Len(a.s), g)
                ELSE NoMatch
           [] a.kind = "wb" ->
                IF AtBoundary(t, pos)
                THEN Match(pat, k + 1, t, pos, g)
                ELSE NoMatch
           [] a.kind = "ref" ->
                IF LitAt(g[a.grp], t, pos)
                THEN Match(pat, k + 1, t, pos + Len(g[a.grp]), g)
                ELSE NoMatch
           [] a.kind = "rep" ->
                TryRep(pat, k, t, pos, g, RunLen(a.cls, t, pos))

TryRep(pat, k, t, pos, g, c) ==
    IF c < pat[k].min
    THEN NoMatch
    ELSE LET g2 == IF pat[k].grp = 0
                   THEN g
                   ELSE [g EXCEPT ![pat[k].grp] = SubSeq(t, pos, pos + c - 1)]
             r  == Match(pat, k + 1, t, pos + c, g2)
         IN  IF r.ok THEN r ELSE TryRep(pat, k, t, pos, g, c - 1)

\* The replacement template repl with the groups g filled in.
RECURSIVE Expand(_, _, _)
Expand(repl, k, g) ==
    IF k > Len(repl)
    THEN ""
    ELSE (IF repl[k].kind = "ref" THEN g[repl[k].grp] ELSE repl[k].s)
         \o Expand(repl, k + 1, g)

\* re.search from index pos on: the first index a match starts at, 0 when
\* there is none.
RECURSIVE FirstMatch(_, _, _)
FirstMatch(pat, t, pos) ==
    IF pos > Len(t)
    THEN 0
    ELSE IF Match(pat, 1, t, pos, NoGroups).ok
         THEN pos
         ELSE FirstMatch(pat, t, pos + 1)

\* re.sub from index pos on: the text up to the leftmost match is copied, the
\* match is replaced and the scan goes on after it.  (No pattern of the
\* scripts matches the empty string.)
RECURSIVE SubFrom(_, _, _, _)
SubFrom(pat, repl, t, pos) ==
    LET p == FirstMatch(pat, t, pos)
    IN  IF p = 0
        THEN SubSeq(t, pos, Len(t))
        ELSE LET m == Match(pat, 1, t, p, NoGroups)
             IN  SubSeq(t, pos, p - 1) \o Expand(repl, 1, m.g)
                    \o SubFrom(pat, repl, t, m.end)

\* re.sub(pat, repl, t)
ReSub(pat, repl, t) == SubFrom(pat, repl, t, 1)

\* Does pat match somewhere in t (re.search)?
Matches(pat, t) == FirstMatch(pat, t, 1) # 0

(***************************************************************************)
(* The patterns and replacements of Script A.                              *)
(***************************************************************************)

\* The declaration pattern with (\w+) in the place of the backreference.
DeclPatAnyIdent ==
    << WB, Lit("json"), Rep("s", 1, 0), Rep("w", 1, 1), Lit(";"),
       Rep("s", 0, 0), Lit("\n"), Rep("s", 0, 2), Rep("w", 1, 0), Lit("[\"") >>
\* r'\bjson\s+(\w+);\s*\n(\s*)\1\["'
DeclPat ==
    << WB, Lit("json"), Rep("s", 1, 0), Rep("w", 1, 1), Lit(";"),
       Rep("s", 0, 0), Lit("\n"), Rep("s", 0, 2), Ref(1), Lit("[\"") >>
\* r'boost::json::object \1;\n\2\1["'
DeclRepl ==
    << Lit("boost::json::object "), Ref(1), Lit(";\n"), Ref(2), Ref(1),
       Lit("[\"") >>

\* r'\bjson::array\(\)'
ArrayPat == << WB, Lit("json::array()") >>
\* r'\bboost::json::value::array\(\)'
ValueArrayPat == << WB, Lit("boost::json::value::array()") >>
\* r'boost::json::array()'
ArrayRepl == << Lit("boost::json::array()") >>

\* r'\bjson::object\(\)'
ObjectPat == << WB, Lit("json::object()") >>
\* r'\bboost::json::value::object\(\)'
ValueObjectPat == << WB, Lit("boost::json::value::object()") >>
\* r'boost::json::object()'
ObjectRepl == << Lit("boost::json::object()") >>

\* The dump pattern with (\d*) for (\d+).
DumpPatOptionalArg ==
    << Rep("w", 1, 1), Lit(".dump("), Rep("d", 0, 2), Lit(")") >>
\* r'(\w+)\.dump\((\d+)\)'
DumpPat == << Rep("w", 1, 1), Lit(".dump("), Rep("d", 1, 2), Lit(")") >>
\* r'boost::json::serialize(\1)'
DumpRepl == << Lit("boost::json::serialize("), Ref(1), Lit(")") >>

\* The contains pattern with ([^"]*) for ([^"]+).
ContainsPatEmptyKey ==
    << Rep("w", 1, 1), Lit(".contains(\""), Rep("nq", 0, 2), Lit("\")") >>
\* r'(\w+)\.contains\("([^"]+)"\)'
ContainsPat ==
    << Rep("w", 1, 1), Lit(".contains(\""), Rep("nq", 1, 2), Lit("\")") >>
\* r'\1.is_object() && \1.as_object().contains("\2")'
ContainsRepl ==
    << Ref(1), Lit(".is_object() && "), Ref(1),
       Lit(".as_object().contains(\""), Ref(2), Lit("\")") >>

\* Rule 1: the declaration of a json variable that is indexed on the next line.
Rule1(t) == ReSub(DeclPat, DeclRepl, t)
\* Rule 2 with its two substitutions in the other order.
Rule2Swapped(t) == ReSub(ArrayPat, ArrayRepl, ReSub(ValueArrayPat, ArrayRepl, t))
\* Rule 2: array creation, the two substitutions in order.
Rule2(t) == ReSub(ValueArrayPat, ArrayRepl, ReSub(ArrayPat, ArrayRepl, t))
\* Rule 3: object creation, the two substitutions in order.
Rule3(t) == ReSub(ValueObjectPat, ObjectRepl, ReSub(ObjectPat, ObjectRepl, t))
\* Rule 4: .dump(n) to boost::json::serialize.
Rule4(t) == ReSub(DumpPat, DumpRepl, t)
\* Rule 5: .contains("k") guarded by is_object().
Rule5(t) == ReSub(ContainsPat, ContainsRepl, t)

\* The substitutions of fix_boost_json_file, in order.
FixContent(t) == Rule5(Rule4(Rule3(Rule2(Rule1(t)))))

(***************************************************************************)
(* The pattern and replacement of Script B.                                *)
(***************************************************************************)

\* r'(\w+)\.is_object\(\) && \1\.as_object\(\)\.contains\("([^"]+)"\)'
GuardPat ==
    << Rep("w", 1, 1), Lit(".is_object() && "), Ref(1),
       Lit(".as_object().contains(\""), Rep("nq", 1, 2), Lit("\")") >>
\* r'\1.contains("\2")'
GuardRepl == << Ref(1), Lit(".contains(\""), Ref(2), Lit("\")") >>

\* The substitution of fix_config.py.
ConfigSub(t) == ReSub(GuardPat, GuardRepl, t)

(***************************************************************************)
(* The inputs the rules are run on.  An input is kept with its shape, so   *)
(* that a property can speak of "the identifier" and "the key" of a text:  *)
(*   contains   x.contains("key")               (key may be empty)         *)
(*   guarded    x.is_object() && y.as_object().contains("key")             *)
(*   chained    x.as_object().contains("key")                              *)
(*   decl       json x;<aux>y["bar"] = 1;       (aux: what follows the ;)  *)
(*   declonly   json x;\nreturn;                                           *)
(*   empty      <aux><x><y>()                   (x: spelling, y: array or  *)
(*                                               object, aux: a context)   *)
(*   dump       x.dump(<aux>)                                              *)
(***************************************************************************)

Idents == {"a", "ab", "b"}
Keys == {"k", "a b)"}
\* A line break followed by optional indentation.
LineBreaks == {"\n", "\n    ", "\n\t"}
\* What may follow the declaration's semicolon in the inputs.
Seps == LineBreaks \cup {" "}
Spellings == {"json::", "boost::json::value::"}
Ctors == {"array", "object"}
Contexts == {"", "auto a = "}
DumpArgs == {"2", "10", "", "n", "-1"}

Input(form, x, y, key, aux) ==
    [form |-> form, x |-> x, y |-> y, key |-> key, aux |-> aux]

RuleInputs ==
    {Input("contains", x, "", k, "") : x \in Idents, k \in Keys \cup {""}}
    \cup {Input("guarded", x, y, k, "") : x \in Idents, y \in Idents, k \in Keys}
    \cup {Input("chained", x, "", k, "") : x \in Idents, k \in Keys}
    \cup {Input("decl", x, y, "bar", s) : x \in Idents, y \in Idents, s \in Seps}
    \cup {Input("declonly", x, "", "", "") : x \in Idents}
    \cup {Input("empty", x, y, "", c) : x \in Spellings, y \in Ctors, c \in Contexts}
    \cup {Input("dump", x, "", "", a) : x \in Idents, a \in DumpArgs}

NoInput == Input("none", "", "", "", "")

ContainsCall(x, k) == x \o ".contains(\"" \o k \o "\")"
GuardedCall(x, y, k) ==
    x \o ".is_object() && " \o y \o ".as_object().contains(\"" \o k \o "\")"

\* The text of an input.
Render(i) ==
    CASE i.form = "contains" -> ContainsCall(i.x, i.key)
      [] i.form = "guarded"  -> GuardedCall(i.x, i.y, i.key)
      [] i.form = "chained"  -> ContainsCall(i.x \o ".as_object()", i.key)
      [] i.form = "decl"     ->
            "json " \o i.x \o ";" \o i.aux \o i.y \o "[\"" \o i.key \o "\"] = 1;"
      [] i.form = "declonly" -> "json " \o i.x \o ";\nreturn;"
      [] i.form = "empty"    ->
            i.aux \o i.x \o i.y \o "()" \o (IF i.aux = "" THEN "" ELSE ";")
      [] i.form = "dump"     -> i.x \o ".dump(" \o i.aux \o ")"
      [] OTHER               -> ""

(***************************************************************************)
(* The file system of Script A.                                            *)
(***************************************************************************)

\* The paths a tree may hold; the model uses the first MaxPaths of them.
AllPaths ==
    << "src/a.cpp", "include/b.h", "lib/c.cpp", "tests/d.cpp", "src/sub/e.cpp" >>

\* How many of AllPaths the tree may hold.
MaxPaths == 4

Paths == {AllPaths[i] : i \in 1..(IF MaxPaths < Len(AllPaths) THEN MaxPaths ELSE Len(AllPaths))}

\* The texts a file may hold.
FileTexts ==
    { "int x;\r\nb.as_object().contains(\"k\")",
      "a = json::array();",
      "json o;\r\no[\"k\"] = a.dump(2);" }

\* The trees: a disk maps the paths that hold a file to the file's text.
Disks == UNION {[S -> FileTexts] : S \in SUBSET Paths}

\* Does path start with prefix / end with suffix?
StartsWith(path, prefix) ==
    Len(path) >= Len(prefix) /\ SubSeq(path, 1, Len(prefix)) = prefix
EndsWith(path, suffix) ==
    /\ Len(path) >= Len(suffix)
    /\ SubSeq(path, Len(path) - Len(suffix) + 1, Len(path)) = suffix

\* The three patterns of main, in order: root/**/*ext.
GlobPatterns ==
    << [root |-> "src/", ext |-> ".cpp"],
       [root |-> "include/", ext |-> ".h"],
       [root |-> "tests/", ext |-> ".cpp"] >>

\* glob.glob(pattern, recursive=True) on disk d: the files under the root, at
\* any depth, whose name ends in the extension.  (No path of the model has a
\* name that starts with a dot, which * would not match.)
GlobMatch(pattern, d) ==
    {p \in DOMAIN d : StartsWith(p, pattern.root) /\ EndsWith(p, pattern.ext)}

\* The orders a set of paths can be listed in: glob returns the directory
\* order, which is the operating system's.
Orderings(S) ==
    {q \in [1..Cardinality(S) -> S] : \A i, j \in DOMAIN q : i # j => q[i] # q[j]}

\* The lists cpp_files can be: the matches of the three patterns, in the order
\* of the patterns.
GlobResults(d) ==
    {q1 \o q2 \o q3 : q1 \in Orderings(GlobMatch(GlobPatterns[1], d)),
                      q2 \in Orderings(GlobMatch(GlobPatterns[2], d)),
                      q3 \in Orderings(GlobMatch(GlobPatterns[3], d))}

\* What os.linesep can be: the line separator of POSIX and of Windows.
LineSeps == {"\n", "\r\n"}

\* f.read() of a file opened in text mode: the bytes b of the file with every
\* line ending (\r\n, \r, \n) read as \n.
RECURSIVE ReadFrom(_, _)
ReadFrom(b, pos) ==
    LET i == IndexFrom(b, "\r", pos)
    IN  IF i = 0
        THEN SubSeq(b, pos, Len(b))
        ELSE SubSeq(b, pos, i - 1) \o "\n"
                \o ReadFrom(b, IF i < Len(b) /\ Ch(b, i + 1) = "\n"
                               THEN i + 2
                               ELSE i + 1)
ReadText(b) == ReadFrom(b, 1)

\* f.write(t) to a file opened in text mode: every \n written as sep, which
\* is os.linesep.
RECURSIVE WriteFrom(_, _, _)
WriteFrom(t, sep, pos) ==
    LET i == IndexFrom(t, "\n", pos)
    IN  IF i = 0
        THEN SubSeq(t, pos, Len(t))
        ELSE SubSeq(t, pos, i - 1) \o sep \o WriteFrom(t, sep, i + 1)
WriteText(t, sep) == WriteFrom(t, sep, 1)

\* print(f"Fixed: {filepath}")
FixedLine(filepath) == "Fixed: " \o filepath
\* print(f"Fixed {fixed_count} files")
CountLine(n) == "Fixed " \o ToString(n) \o " files"

\* A change detection that finds every file changed.
ChangedAlways(new, old) == TRUE
\* if content != original_content
Changed(new, old) == new # old

\* A count of the files processed, not of the files fixed.
CountEvery(count, fixed) == count + 1
\* if fix_boost_json_file(filepath): fixed_count += 1
NextCount(count, fixed) == IF fixed THEN count + 1 ELSE count

(***************************************************************************)
(* The state.                                                              *)
(***************************************************************************)

VARIABLES
    \* os.linesep of the platform the scripts run on.
    linesep,
    \* The rules on their own: the input, the text so far, the text before
    \* the last application, and the rules applied, in order.
    inp, text, prev, applied,
    \* Script A: the disk (path of a file -> its text) and the disk at the start;
    \* main's cpp_files, the index of the file the loop is at, fixed_count;
    \* fix_boost_json_file's content and original_content; the lines printed;
    \* where the script is.
    disk, disk0, cpp_files, idx, fixed_count, content, original_content, out, pc,
    \* Script A, observed: the paths read, in order; the paths opened for
    \* writing; what fix_boost_json_file returned, call by call; the index of
    \* the file a fault was raised at, 0 while none was.
    reads, opened, rets, faultAt,
    \* Script B: src/config.cpp now and at the start, the script's content,
    \* the lines printed, how often the file was written, where the script is.
    config, config0, bcontent, bout, bwrites, bpc

rvars == <<inp, text, prev, applied>>
avars == <<disk, disk0, cpp_files, idx, fixed_count, content, original_content,
           out, pc, reads, opened, rets, faultAt>>
bvars == <<config, config0, bcontent, bout, bwrites, bpc>>
vars == <<linesep, rvars, avars, bvars>>

\* The parts of the state a specification does not use.
RuleIdle ==
    /\ inp = NoInput
    /\ text = ""
    /\ prev = ""
    /\ applied = << >>
AIdle ==
    /\ disk = << >>
    /\ disk0 = << >>
    /\ cpp_files = << >>
    /\ idx = 1
    /\ fixed_count = 0
    /\ content = ""
    /\ original_content = ""
    /\ out = << >>
    /\ pc = "idle"
    /\ reads = << >>
    /\ opened = {}
    /\ rets = << >>
    /\ faultAt = 0
BIdle ==
    /\ config = ""
    /\ config0 = ""
    /\ bcontent = ""
    /\ bout = << >>
    /\ bwrites = 0
    /\ bpc = "idle"

(***************************************************************************)
(* The rules on their own.                                                 *)
(***************************************************************************)

\* How many rules are applied to one input.
MaxApplied == 2

RuleInit ==
    /\ inp \in RuleInputs
    /\ text = Render(inp)
    /\ prev = Render(inp)
    /\ applied = << >>
    /\ linesep = "\n"
    /\ AIdle
    /\ BIdle

\* One application of a substitution to the text.
Apply(name, result) ==
    /\ Len(applied) < MaxApplied
    /\ prev' = text
    /\ text' = result
    /\ applied' = Append(applied, name)
    /\ UNCHANGED <<inp, linesep, avars, bvars>>

ApplyRule1 == Apply("rule1", Rule1(text))
ApplyRule2 == Apply("rule2", Rule2(text))
ApplyRule3 == Apply("rule3", Rule3(text))
ApplyRule4 == Apply("rule4", Rule4(text))
ApplyRule5 == Apply("rule5", Rule5(text))
ApplyConfigSub == Apply("config", ConfigSub(text))

RuleNext ==
    \/ ApplyRule1
    \/ ApplyRule2
    \/ ApplyRule3
    \/ ApplyRule4
    \/ ApplyRule5
    \/ ApplyConfigSub

RuleSpec == RuleInit /\ [][RuleNext]_vars

(***************************************************************************)
(* Script A: main and fix_boost_json_file.                                 *)
(***************************************************************************)

Init ==
    /\ linesep \in LineSeps
    /\ disk \in Disks
    /\ disk0 = disk
    /\ cpp_files = << >>
    /\ idx = 1
    /\ fixed_count = 0
    /\ content = ""
    /\ original_content = ""
    /\ out = << >>
    /\ pc = "start"
    /\ reads = << >>
    /\ opened = {}
    /\ rets = << >>
    /\ faultAt = 0
    /\ RuleIdle
    /\ BIdle

\* main, up to the loop: the three globs and fixed_count = 0.
Glob ==
    /\ pc = "start"
    /\ cpp_files' \in GlobResults(disk)
    /\ idx' = 1
    /\ fixed_count' = 0
    /\ pc' = "loop"
    /\ UNCHANGED <<disk, disk0, content, original_content, out, reads, opened,
                   rets, faultAt, rvars, bvars, linesep>>

\* fix_boost_json_file, to the end of the substitutions: the file is read and
\* the substitutions are applied to its text.
ReadAndFix ==
    /\ pc = "loop"
    /\ idx <= Len(cpp_files)
    /\ original_content' = ReadText(disk[cpp_files[idx]])
    /\ content' = FixContent(ReadText(disk[cpp_files[idx]]))
    /\ reads' = Append(reads, cpp_files[idx])
    /\ pc' = "save"
    /\ UNCHANGED <<disk, disk0, cpp_files, idx, fixed_count, out, opened, rets,
                   faultAt, rvars, bvars, linesep>>

\* Read faults that are caught: the file is skipped and the loop goes on.
ReadFaultSkipped ==
    /\ pc = "loop"
    /\ idx <= Len(cpp_files)
    /\ idx' = idx + 1
    /\ rets' = Append(rets, FALSE)
    /\ faultAt' = idx
    /\ UNCHANGED <<disk, disk0, cpp_files, fixed_count, content,
                   original_content, out, reads, opened, pc, rvars, bvars, linesep>>

\* open(filepath, 'r') or f.read() raises: nothing catches it.
ReadFault ==
    /\ pc = "loop"
    /\ idx <= Len(cpp_files)
    /\ pc' = "fault"
    /\ faultAt' = idx
    /\ UNCHANGED <<disk, disk0, cpp_files, idx, fixed_count, content,
                   original_content, out, reads, opened, rets, rvars, bvars, linesep>>

\* fix_boost_json_file from "Save if changed" to its return, and main's use
\* of the result: a changed text is written and reported and the file counted.
Save ==
    /\ pc = "save"
    /\ LET filepath == cpp_files[idx]
           fixed == Changed(content, original_content)
       IN  /\ IF fixed
              THEN /\ disk' = [disk EXCEPT ![filepath] = WriteText(content, linesep)]
                   /\ opened' = opened \cup {filepath}
                   /\ out' = Append(out, FixedLine(filepath))
              ELSE UNCHANGED <<disk, opened, out>>
           /\ rets' = Append(rets, fixed)
           /\ fixed_count' = NextCount(fixed_count, fixed)
    /\ idx' = idx + 1
    /\ pc' = "loop"
    /\ UNCHANGED <<disk0, cpp_files, content, original_content, reads, faultAt,
                   rvars, bvars, linesep>>

\* open(filepath, 'w') raises and the file is as it was, or the file is opened
\* (and so truncated) and the write raises: nothing catches either.
WriteFault ==
    /\ pc = "save"
    /\ Changed(content, original_content)
    /\ \E wasOpened \in BOOLEAN :
          IF wasOpened
          THEN /\ disk' = [disk EXCEPT ![cpp_files[idx]] = ""]
               /\ opened' = opened \cup {cpp_files[idx]}
          ELSE UNCHANGED <<disk, opened>>
    /\ pc' = "fault"
    /\ faultAt' = idx
    /\ UNCHANGED <<disk0, cpp_files, idx, fixed_count, content,
                   original_content, out, reads, rets, rvars, bvars, linesep>>

\* main after the loop: the count is printed.
Finish ==
    /\ pc = "loop"
    /\ idx > Len(cpp_files)
    /\ out' = Append(out, CountLine(fixed_count))
    /\ pc' = "done"
    /\ UNCHANGED <<disk, disk0, cpp_files, idx, fixed_count, content,
                   original_content, reads, opened, rets, faultAt, rvars, bvars, linesep>>

Next ==
    \/ Glob
    \/ ReadAndFix
    \/ ReadFault
    \/ Save
    \/ WriteFault
    \/ Finish

Spec == Init /\ [][Next]_vars

(***************************************************************************)
(* Script B: fix_config.py.                                                *)
(***************************************************************************)

\* The texts src/config.cpp may hold.
ConfigTexts ==
    {Render(i) : i \in {j \in RuleInputs : j.form \in {"contains", "guarded", "chained"}}}
    \cup {"int x;\r\nint y;", "if (b.is_object() && b.as_object().contains(\"k\"))\r\n  f();\n"}

ConfigInit ==
    /\ linesep \in LineSeps
    /\ config \in ConfigTexts
    /\ config0 = config
    /\ bcontent = ""
    /\ bout = << >>
    /\ bwrites = 0
    /\ bpc = "start"
    /\ RuleIdle
    /\ AIdle

\* The file is read and the substitution applied.
ConfigRead ==
    /\ bpc = "start"
    /\ bcontent' = ConfigSub(ReadText(config))
    /\ bpc' = "write"
    /\ UNCHANGED <<config, config0, bout, bwrites, rvars, avars, linesep>>

\* open('src/config.cpp', 'r') or f.read() raises.
ConfigReadFault ==
    /\ bpc = "start"
    /\ bpc' = "readfault"
    /\ UNCHANGED <<config, config0, bcontent, bout, bwrites, rvars, avars, linesep>>

\* The write of a script that writes only a changed content.
ConfigWriteIfChanged ==
    /\ bpc = "write"
    /\ IF bcontent # ReadText(config)
       THEN /\ config' = WriteText(bcontent, linesep)
            /\ bwrites' = bwrites + 1
       ELSE UNCHANGED <<config, bwrites>>
    /\ bout' = Append(bout, "Fixed config.cpp")
    /\ bpc' = "done"
    /\ UNCHANGED <<config0, bcontent, rvars, avars, linesep>>

\* The content is written back and the message printed.
ConfigWrite ==
    /\ bpc = "write"
    /\ config' = WriteText(bcontent, linesep)
    /\ bwrites' = bwrites + 1
    /\ bout' = Append(bout, "Fixed config.cpp")
    /\ bpc' = "done"
    /\ UNCHANGED <<config0, bcontent, rvars, avars, linesep>>

\* open('src/config.cpp', 'w') raises and the file is as it was, or the file
\* is opened (and so truncated) and the write raises.
ConfigWriteFault ==
    /\ bpc = "write"
    /\ \E wasOpened \in BOOLEAN :
          config' = IF wasOpened THEN "" ELSE config
    /\ bpc' = "writefault"
    /\ UNCHANGED <<config0, bcontent, bout, bwrites, rvars, avars, linesep>>

ConfigNext ==
    \/ ConfigRead
    \/ ConfigReadFault
    \/ ConfigWrite
    \/ ConfigWriteFault

ConfigSpec == ConfigInit /\ [][ConfigNext]_vars

(***************************************************************************)
(* Properties of the rules on their own (RuleSpec).                        *)
(***************************************************************************)

\* Is s made of digits only?
RECURSIVE AllDigits(_)
AllDigits(s) == s = "" \/ (Head(s) \in Digits /\ AllDigits(Tail(s)))

\* C2: for an input containing json::array(), one application of the
\* empty-array substitutions replaces it with boost::json::array(), and a
\* second application of the same substitutions changes nothing.
C2_Rule2Idempotent ==
    (/\ inp.form = "empty"
     /\ inp.x = "json::"
     /\ inp.y = "array"
     /\ applied = <<"rule2", "rule2">>)
    => /\ prev = inp.aux \o "boost::json::array()" \o (IF inp.aux = "" THEN "" ELSE ";")
       /\ text = prev

\* C3: Script B's substitution undoes Script A's rule 5 on v.contains("k")
\* for every identifier v and non-empty key k, and Script B collapses
\* x.is_object() && y.as_object().contains("k") only when x and y are the
\* same identifier.
C3_ConfigSubInvertsRule5 ==
    /\ (/\ inp.form = "contains"
        /\ inp.key # ""
        /\ applied = <<"rule5", "config">>)
       => text = Render(inp)
    /\ (/\ inp.form = "guarded"
        /\ applied = <<"config">>
        /\ text # Render(inp))
       => inp.x = inp.y

\* C5: rule 5 rewrites v.contains("k") to
\* v.is_object() && v.as_object().contains("k"), the same identifier on both
\* sides and the key kept; a call whose receiver does not end in a word
\* character, or whose key is empty, is left as it is.
C5_Rule5Guards ==
    applied = <<"rule5">> =>
        /\ (inp.form = "contains" /\ inp.key # "")
           => text = GuardedCall(inp.x, inp.x, inp.key)
        /\ (inp.form = "chained" \/ (inp.form = "contains" /\ inp.key = ""))
           => text = Render(inp)

C5_Witness ==
    /\ applied = <<"rule5">>
    /\ inp.form = "contains"
    /\ inp.x = "ab"
    /\ inp.key = "a b)"
    /\ text = "ab.is_object() && ab.as_object().contains(\"a b)\")"

\* C6: rule 1 rewrites json X; followed by a line break, optional indentation
\* and X[" to boost::json::object X; and keeps the indentation and the
\* indexed line; a declaration followed by the indexing of another
\* identifier, or not followed by an indexed use on the next line, is left as
\* it is.
C6_Rule1Declaration ==
    applied = <<"rule1">> =>
        /\ (inp.form = "decl" /\ inp.aux \in LineBreaks /\ inp.x = inp.y)
           => text = "boost::json::object " \o inp.x \o ";" \o inp.aux
                        \o inp.y \o "[\"" \o inp.key \o "\"] = 1;"
        /\ (\/ inp.form = "declonly"
            \/ (inp.form = "decl" /\ (inp.aux \notin LineBreaks \/ inp.x # inp.y)))
           => text = Render(inp)

C6_Witness ==
    /\ applied = <<"rule1">>
    /\ inp.form = "decl"
    /\ inp.x = "ab"
    /\ inp.y = "ab"
    /\ inp.aux = "\n    "
    /\ text = "boost::json::object ab;\n    ab[\"bar\"] = 1;"

\* C7: rules 2 and 3 bring both spellings to one form: json::X() and
\* boost::json::value::X() both become boost::json::X(), for X array (rule 2)
\* and object (rule 3).
C7_CanonicalForm ==
    (/\ inp.form = "empty"
     /\ applied = << IF inp.y = "array" THEN "rule2" ELSE "rule3" >>)
    => text = inp.aux \o "boost::json::" \o inp.y \o "()"
                 \o (IF inp.aux = "" THEN "" ELSE ";")

C7_Witness ==
    /\ inp.form = "empty"
    /\ inp.x = "boost::json::value::"
    /\ inp.y = "array"
    /\ inp.aux = ""
    /\ applied = <<"rule2">>
    /\ text = "boost::json::array()"

\* C8: rule 4 rewrites v.dump(n), n a non-negative decimal integer, to
\* boost::json::serialize(v); a dump call with no argument or with an
\* argument that is not digits only is left as it is.
C8_Rule4Dump ==
    (inp.form = "dump" /\ applied = <<"rule4">>) =>
        IF inp.aux # "" /\ AllDigits(inp.aux)
        THEN text = "boost::json::serialize(" \o inp.x \o ")"
        ELSE text = Render(inp)

C8_Witness ==
    /\ inp.form = "dump"
    /\ inp.x = "ab"
    /\ inp.aux = "10"
    /\ applied = <<"rule4">>
    /\ text = "boost::json::serialize(ab)"

(***************************************************************************)
(* Properties of Script A (Spec).                                          *)
(***************************************************************************)

\* Was line printed by Script A?
Printed(line) == \E i \in DOMAIN out : out[i] = line

\* The patterns of Script A's substitutions.
ScriptAPatterns ==
    << DeclPat, ArrayPat, ValueArrayPat, ObjectPat, ValueObjectPat, DumpPat,
       ContainsPat >>

\* Does one of Script A's patterns match somewhere in t?
AnyPatternMatches(t) ==
    \E i \in DOMAIN ScriptAPatterns : Matches(ScriptAPatterns[i], t)

\* What the substitutions make of each text a file may hold, and the texts
\* none of the patterns matches in.
TextRead == [b \in FileTexts |-> ReadText(b)]
FixedText == [b \in FileTexts |-> FixContent(ReadText(b))]
UnmatchedTexts == {b \in FileTexts : ~AnyPatternMatches(ReadText(b))}

\* What Script A leaves in a file it has processed that held b.
Processed(b) ==
    IF FixedText[b] # TextRead[b] THEN WriteText(FixedText[b], linesep) ELSE b

\* The final lines main can print.
CountLines == {CountLine(n) : n \in 0..Cardinality(Paths)}

\* C1: for every file fix_boost_json_file has processed, the file was written
\* if and only if the text after the substitutions differs from the text
\* read, and 'Fixed: <path>' was printed and True returned exactly then; a
\* file whose text none of the patterns matches in is never opened for
\* writing, keeps its content, gets no 'Fixed:' line, and the call returns
\* False.
C1_ChangeDetection ==
    /\ \A j \in DOMAIN rets :
          LET p == cpp_files[j]
              differs == FixedText[disk0[p]] # TextRead[disk0[p]]
          IN  /\ (p \in opened) = differs
              /\ Printed(FixedLine(p)) = differs
              /\ rets[j] = differs
              /\ disk[p] = Processed(disk0[p])
    /\ \A p \in DOMAIN disk0 :
          disk0[p] \in UnmatchedTexts =>
              /\ p \notin opened
              /\ disk[p] = disk0[p]
              /\ ~Printed(FixedLine(p))
              /\ \A j \in DOMAIN rets : cpp_files[j] = p => ~rets[j]

C1_Witness ==
    /\ Len(rets) = 2
    /\ rets[1]
    /\ ~rets[2]
    /\ disk0[cpp_files[2]] \in UnmatchedTexts
    /\ disk[cpp_files[2]] = disk0[cpp_files[2]]
    /\ TextRead[disk0[cpp_files[2]]] # disk0[cpp_files[2]]
    /\ disk[cpp_files[1]] # disk0[cpp_files[1]]

\* C9: main processes the files one at a time in list order and, when every
\* file is processed without a fault, prints 'Fixed N files' exactly once,
\* after every 'Fixed: <path>' line, N being the number of files rewritten,
\* which is the number of 'Fixed: <path>' lines.
C9_FinalCount ==
    /\ Len(reads) <= Len(cpp_files)
    /\ \A i \in DOMAIN reads : reads[i] = cpp_files[i]
    /\ Len(rets) <= Len(reads)
    /\ Len(reads) <= Len(rets) + 1
    /\ pc # "done" => \A i \in DOMAIN out : out[i] \notin CountLines
    /\ pc = "done" =>
          /\ reads = cpp_files
          /\ Len(rets) = Len(cpp_files)
          /\ Len(out) = Cardinality(opened) + 1
          /\ out[Len(out)] = CountLine(Cardinality(opened))
          /\ \A i \in 1..(Len(out) - 1) :
                /\ out[i] \notin CountLines
                /\ \E p \in opened : out[i] = FixedLine(p)
          /\ \A p \in opened : disk[p] # disk0[p]
          /\ \A p \in DOMAIN disk : p \notin opened => disk[p] = disk0[p]

C9_Witness ==
    /\ pc = "done"
    /\ Len(cpp_files) = 3
    /\ out = <<FixedLine(cpp_files[1]), FixedLine(cpp_files[3]), CountLine(2)>>
    /\ out[3] = "Fixed 2 files"

\* C10: when reading or writing the i-th file raises a fault the script ends
\* there: the files before it keep what the script made of them, no later
\* file is read or written, and the final 'Fixed N files' line is not
\* printed.
C10_FailFast ==
    faultAt # 0 =>
        /\ pc = "fault"
        /\ ~ENABLED Next
        /\ idx = faultAt
        /\ \A i \in DOMAIN out : out[i] \notin CountLines
        /\ \A j \in 1..(idx - 1) :
              /\ disk[cpp_files[j]] = Processed(disk0[cpp_files[j]])
              /\ (cpp_files[j] \in opened) = (disk[cpp_files[j]] # disk0[cpp_files[j]])
        /\ \A j \in (idx + 1)..Len(cpp_files) :
              /\ cpp_files[j] \notin opened
              /\ \A i \in DOMAIN reads : reads[i] # cpp_files[j]
              /\ disk[cpp_files[j]] = disk0[cpp_files[j]]

C10_Witness ==
    /\ pc = "fault"
    /\ faultAt = 2
    /\ Len(cpp_files) = 3
    /\ rets = <<TRUE>>
    /\ disk[cpp_files[1]] # disk0[cpp_files[1]]
    /\ disk0[cpp_files[3]] \notin UnmatchedTexts
    /\ disk[cpp_files[3]] = disk0[cpp_files[3]]

(***************************************************************************)
(* Properties of Script B (ConfigSpec).                                    *)
(***************************************************************************)

=============================================================================
